---- MODULE Spec2Model ----
(***************************************************************************)
(* Authorization and permission synchronisation of personal-netflix:       *)
(* the Firestore "users" collection, the two zero-trust server actions     *)
(* (bootstrapAdminAction, syncUserPermissionsAction), the AuthProvider     *)
(* resolution started by every onAuthStateChanged notification, and the    *)
(* admin-side writers (updateUserRole, updateUserPermission, the edit      *)
(* modal's handleSave).                                                    *)
(*                                                                         *)
(* JavaScript objects are modelled as TLA+ records whose DOMAIN is the set *)
(* of keys that are present: {...a, k: v} is [k |-> v] @@ a, an absent key *)
(* is a key outside DOMAIN, and x ?? d is a test on DOMAIN.                *)
(***************************************************************************)
EXTENDS Integers, FiniteSets, Sequences, TLC

\* ------------------------------------------------------------------ bounds
MaxInputs  == 2      \* requests a run receives: notifications, action calls, admin requests
MaxVersion == 2      \* highest value CURRENT_PERMISSIONS_VERSION is bumped to

\* ------------------------------------------------------------ identities
Subjects == {"u1", "u2"}
Sessions == {"s1", "s2"}
Tasks    == {"t1", "t2"}

ADMIN_ADDRESS == "admin@x.com"
OTHER_ADDRESS == "x@y.com"
NoEmail       == "undefined"
Unset         == "unset"

\* The identities the provider can authenticate: a subject and its email claim.
Identities ==
    { [uid |-> "u1", email |-> ADMIN_ADDRESS],
      [uid |-> "u2", email |-> OTHER_ADDRESS],
      [uid |-> "u2", email |-> NoEmail] }

\* A bearer credential: what it says (uid, email) and whether the provider
\* would accept it.  A valid credential always states a real identity; an
\* invalid one (expired, malformed, forged) may state anything.
Tokens ==
    { [uid |-> i.uid, email |-> i.email, valid |-> TRUE] : i \in Identities }
    \cup
    { [uid |-> "u2", email |-> ADMIN_ADDRESS, valid |-> FALSE] }

\* ------------------------------------------------------- capability matrix
UserRole == {"admin", "editor", "vip", "user", "banned"}

PermissionKeys ==
    { "canManageUsers", "canDeleteMovie", "canCreateMovie", "canUpdateMovie",
      "canViewAdminPanel", "canWatchVipContent", "canWatchContent",
      "canSaveProgress" }

PERMISSION_MATRIX_EditorDeletes ==
    [ r \in UserRole |->
        [ k \in PermissionKeys |->
            \/ r \in {"admin", "editor"}
            \/ r = "vip" /\ k \in {"canWatchVipContent", "canWatchContent",
                                    "canSaveProgress"}
            \/ r = "user" /\ k \in {"canWatchContent", "canSaveProgress"} ] ]

PERMISSION_MATRIX ==
    [ admin |->
        [ canManageUsers |-> TRUE, canDeleteMovie |-> TRUE,
          canCreateMovie |-> TRUE, canUpdateMovie |-> TRUE,
          canViewAdminPanel |-> TRUE, canWatchVipContent |-> TRUE,
          canWatchContent |-> TRUE, canSaveProgress |-> TRUE ],
      editor |->
        [ canManageUsers |-> FALSE, canDeleteMovie |-> FALSE,
          canCreateMovie |-> TRUE, canUpdateMovie |-> TRUE,
          canViewAdminPanel |-> TRUE, canWatchVipContent |-> TRUE,
          canWatchContent |-> TRUE, canSaveProgress |-> TRUE ],
      vip |->
        [ canManageUsers |-> FALSE, canDeleteMovie |-> FALSE,
          canCreateMovie |-> FALSE, canUpdateMovie |-> FALSE,
          canViewAdminPanel |-> FALSE, canWatchVipContent |-> TRUE,
          canWatchContent |-> TRUE, canSaveProgress |-> TRUE ],
      user |->
        [ canManageUsers |-> FALSE, canDeleteMovie |-> FALSE,
          canCreateMovie |-> FALSE, canUpdateMovie |-> FALSE,
          canViewAdminPanel |-> FALSE, canWatchVipContent |-> FALSE,
          canWatchContent |-> TRUE, canSaveProgress |-> TRUE ],
      banned |->
        [ canManageUsers |-> FALSE, canDeleteMovie |-> FALSE,
          canCreateMovie |-> FALSE, canUpdateMovie |-> FALSE,
          canViewAdminPanel |-> FALSE, canWatchVipContent |-> FALSE,
          canWatchContent |-> FALSE, canSaveProgress |-> FALSE ] ]

getPermissionsByRole(role) == PERMISSION_MATRIX[role]

\* {...permissions, version: v}
WithVersion(permissions, v) == [version |-> v] @@ permissions

\* permissions.version ?? 0
storedVersionOf(permissions) ==
    IF "version" \in DOMAIN permissions THEN permissions.version ELSE 0

\* The eight flags of a permissions map, without its version key.
FlagsOf(permissions) == [k \in PermissionKeys |-> permissions[k]]

\* data.role ?? 'user'
roleOf(data) == IF "role" \in DOMAIN data THEN data.role ELSE "user"

\* ------------------------------------------------------------------- state
VARIABLES
    db,              \* the users collection: document id -> document
    adminEmail,      \* process.env.ADMIN_EMAIL on the server
    CURRENT_PERMISSIONS_VERSION,   \* the deployed schema version
    bootstrapResult, \* the BootstrapResult last returned
    syncResult,      \* the SyncResult last returned to a direct caller
    directCall,      \* a direct syncUserPermissionsAction call between its read and its write
    authUser,        \* per session: auth.currentUser as last notified
    user,            \* per session: AuthContext user
    loading,         \* per session: AuthContext loading
    task,            \* the in-flight onAuthStateChanged callbacks
    modal,           \* the UserEditModal's state
    creates,         \* per subject: provisioning writes performed so far
    overrides,       \* per subject: the flags set by updateUserPermission, to what, and under which schema version
    page,            \* per session: the title open on the watch page
    progress,        \* the watch-progress documents written: <<uid, title id>>
    inputs           \* requests received so far

vars == << db, adminEmail, CURRENT_PERMISSIONS_VERSION, bootstrapResult,
           syncResult, directCall, authUser, user, loading, task, modal,
           creates, overrides, page, progress, inputs >>

serverVars == << adminEmail, CURRENT_PERMISSIONS_VERSION >>
watchVars  == << page, progress >>
clientVars == << authUser, user, loading, task >>

\* -------------------------------------------------------------- the store
Exists(store, uid) == uid \in DOMAIN store

ServerTimestamp == "serverTimestamp"

\* DocumentReference.set(fields, {merge: true}): top-level keys are merged and
\* a nested map is merged key by key.
SetMerge(store, uid, fields) ==
    IF Exists(store, uid)
    THEN LET old == store[uid]
             merged == fields @@ old
             perms == IF "permissions" \in DOMAIN fields /\ "permissions" \in DOMAIN old
                      THEN fields.permissions @@ old.permissions
                      ELSE merged.permissions
         IN [store EXCEPT ![uid] = [merged EXCEPT !.permissions = perms]]
    ELSE (uid :> fields) @@ store

\* setDoc(ref, fields): creates the document or replaces it entirely.
SetDoc(store, uid, fields) == (uid :> fields) @@ store

\* updateDoc(ref, fields) / DocumentReference.update(fields): the named
\* top-level fields are replaced; the document must exist.
UpdateDoc(store, uid, fields) == [store EXCEPT ![uid] = fields @@ store[uid]]

\* An update that replaces the whole permissions map by the role's defaults
\* with the one flag set.
UpdateNested_Whole(store, uid, key, value) ==
    [store EXCEPT ![uid] =
        [@ EXCEPT !.permissions =
            (key :> value) @@ getPermissionsByRole(roleOf(store[uid]))]]

\* updateDoc(ref, {"permissions.<key>": value})
UpdateNested(store, uid, key, value) ==
    [store EXCEPT ![uid] =
        [@ EXCEPT !.permissions = (key :> value) @@ @]]

\* ------------------------------------------------------- identity verifier
VerifierUnavailable == "verifier unavailable"
InvalidCredential   == "invalid credential"
StoreUnavailable    == "store unavailable"

\* A verifier that trusts what the credential states without checking it.
verifyIdToken_Unchecked(idToken, avail) ==
    [ok |-> TRUE, uid |-> idToken.uid, email |-> idToken.email]

\* adminAuth.verifyIdToken(idToken): the decoded token, or a thrown error.
\* avail is whether the identity provider can be reached.
verifyIdToken(idToken, avail) ==
    IF ~avail THEN [ok |-> FALSE, message |-> VerifierUnavailable]
    ELSE IF ~idToken.valid THEN [ok |-> FALSE, message |-> InvalidCredential]
    ELSE [ok |-> TRUE, uid |-> idToken.uid, email |-> idToken.email]

getVerifiedUid(idToken, avail) ==
    LET decoded == verifyIdToken(idToken, avail)
    IN IF decoded.ok THEN [ok |-> TRUE, uid |-> decoded.uid] ELSE decoded

\* ------------------------------------------------------------ result values
\* `Server error: ${message}`
ServerErrorText ==
    [ m \in {VerifierUnavailable, InvalidCredential, StoreUnavailable} |->
        CASE m = VerifierUnavailable -> "Server error: verifier unavailable"
          [] m = InvalidCredential   -> "Server error: invalid credential"
          [] m = StoreUnavailable    -> "Server error: store unavailable" ]

ServerError(message) == [success |-> FALSE, error |-> ServerErrorText[message]]

Misconfigured == [success |-> FALSE, error |-> "Server misconfiguration: ADMIN_EMAIL not set."]
Denied        == [success |-> FALSE, error |-> "Permission denied."]
Promoted      == [success |-> TRUE, message |-> "Successfully promoted to Admin."]
NotFound      == [success |-> FALSE, error |-> "User document not found."]
NoResult      == [none |-> TRUE]

SyncOk(synced) == [success |-> TRUE, synced |-> synced]

\* ------------------------------------------------- bootstrapAdminAction
\* A check of ADMIN_EMAIL that never finds it missing.
IsMissing_Never(value) == FALSE

\* !adminEmail
IsMissing(value) == value = Unset

\* A comparison that lets a credential without an email claim through.
EmailMismatch_Lax(email, configured) == email # configured /\ email # NoEmail

\* email !== adminEmail
EmailMismatch(email, configured) == email # configured

\* A denial that tells a credential without an email claim from one with.
DenyResult_Leaky(email, configured) ==
    IF email = NoEmail
    THEN [success |-> FALSE, error |-> "Permission denied: no email claim."]
    ELSE [success |-> FALSE, error |-> "Permission denied."]

\* return { success: false, error: 'Permission denied.' } (lines 61-64): the
\* value returned on a mismatch of these two emails.
DenyResult(email, configured) == Denied

\* A bootstrap write that forgets the version tag.
AdminFields_NoVersion(email, version) ==
    [ email       |-> email,
      role        |-> "admin",
      permissions |-> getPermissionsByRole("admin"),
      updatedAt   |-> ServerTimestamp ]

\* The document bootstrapAdminAction writes with {merge: true}.
AdminFields(email, version) ==
    [ email       |-> email,
      role        |-> "admin",
      permissions |-> WithVersion(getPermissionsByRole("admin"), version),
      updatedAt   |-> ServerTimestamp ]

\* What one call returns and the store it leaves, under ADMIN_EMAIL = env.
BootstrapOutcome(store, env, idToken, avail, writeOk) ==
    LET decodedToken == verifyIdToken(idToken, avail)
    IN IF ~decodedToken.ok
       THEN [result |-> ServerError(decodedToken.message), store |-> store]
       ELSE IF IsMissing(env)
       THEN [result |-> Misconfigured, store |-> store]
       ELSE IF EmailMismatch(decodedToken.email, env)
       THEN [result |-> DenyResult(decodedToken.email, env), store |-> store]
       ELSE IF ~writeOk
       THEN [result |-> ServerError(StoreUnavailable), store |-> store]
       ELSE [result |-> Promoted,
             store  |-> SetMerge(store, decodedToken.uid,
                                 AdminFields(decodedToken.email,
                                             CURRENT_PERMISSIONS_VERSION))]

bootstrapAdminAction(idToken, avail, writeOk) ==
    /\ inputs < MaxInputs
    /\ inputs' = inputs + 1
    /\ UNCHANGED << serverVars, clientVars, syncResult, directCall, modal,
                    creates, overrides, watchVars >>
    /\ LET out == BootstrapOutcome(db, adminEmail, idToken, avail, writeOk)
       IN /\ bootstrapResult' = out.result
          /\ db' = out.store

\* ---------------------------------------------- syncUserPermissionsAction
\* A staleness test that also resyncs a record already at the current version.
SyncNeeded_Inclusive(storedVersion, current) == storedVersion <= current

\* storedVersion >= CURRENT_PERMISSIONS_VERSION (line 117), negated.
SyncNeeded(storedVersion, current) == ~(storedVersion >= current)

\* Lines 104-123: verify, read, compare.  Either the call returns at once or
\* it goes on to its write with the role it read.
SyncRead(store, idToken, avail, readOk) ==
    LET verified == getVerifiedUid(idToken, avail)
    IN IF ~verified.ok
       THEN [returns |-> TRUE, result |-> ServerError(verified.message)]
       ELSE IF ~readOk
       THEN [returns |-> TRUE, result |-> ServerError(StoreUnavailable)]
       ELSE IF ~Exists(store, verified.uid)
       THEN [returns |-> TRUE, result |-> NotFound]
       ELSE LET data == store[verified.uid]
                storedVersion == IF "permissions" \in DOMAIN data
                                 THEN storedVersionOf(data.permissions) ELSE 0
            IN IF ~SyncNeeded(storedVersion, CURRENT_PERMISSIONS_VERSION)
               THEN [returns |-> TRUE, result |-> SyncOk(FALSE)]
               ELSE [returns |-> FALSE, uid |-> verified.uid, role |-> roleOf(data)]

\* A resync write that forgets the version tag.
SyncFields_NoVersion(role, version) ==
    [ permissions |-> getPermissionsByRole(role),
      updatedAt   |-> ServerTimestamp ]

\* The fields of the update at lines 125-128.
SyncFields(role, version) ==
    [ permissions |-> WithVersion(getPermissionsByRole(role), version),
      updatedAt   |-> ServerTimestamp ]

\* Lines 125-130: the write and the result returned.
SyncWrite(store, pending, writeOk) ==
    IF ~writeOk
    THEN [result |-> ServerError(StoreUnavailable), store |-> store]
    ELSE [result |-> SyncOk(TRUE),
          store  |-> UpdateDoc(store, pending.uid,
                               SyncFields(pending.role, CURRENT_PERMISSIONS_VERSION))]

Idle == [pc |-> "idle"]

\* A call of the action from outside AuthProvider, up to its read.
DirectSyncStart(idToken, avail, readOk) ==
    /\ directCall = Idle
    /\ inputs < MaxInputs
    /\ inputs' = inputs + 1
    /\ UNCHANGED << db, serverVars, clientVars, bootstrapResult,
                    modal, creates, overrides, watchVars >>
    /\ LET out == SyncRead(db, idToken, avail, readOk)
       IN IF out.returns
          THEN /\ syncResult' = out.result
               /\ directCall' = Idle
          ELSE /\ syncResult' = NoResult
               /\ directCall' = [pc |-> "write", uid |-> out.uid, role |-> out.role,
                                 idToken |-> idToken]

\* The same call's write and return.
DirectSyncWrite(writeOk) ==
    /\ directCall # Idle
    /\ LET out == SyncWrite(db, directCall, writeOk)
       IN /\ db' = out.store
          /\ syncResult' = out.result
    /\ directCall' = Idle
    /\ UNCHANGED << serverVars, clientVars, bootstrapResult, modal,
                    creates, overrides, watchVars, inputs >>

\* ------------------------------------------------------------ AuthProvider
NoUser    == [null |-> TRUE]
SignedOut == "signedOut"
Unknown   == "unknown"

\* { ...firebaseUser, role, permissions } as AppUser
AppUser(firebaseUser, role, permissions) ==
    [uid |-> firebaseUser.uid, role |-> role, permissions |-> permissions]

\* firebaseUser.getIdToken(): a credential of the signed-in identity.
getIdToken(firebaseUser) ==
    [uid |-> firebaseUser.uid, email |-> firebaseUser.email, valid |-> TRUE]

\* A first login that makes the allow-listed subject an administrator at once.
newUserData_AllowListed(firebaseUser) ==
    LET defaultRole == IF firebaseUser.email = ADMIN_ADDRESS THEN "admin" ELSE "user"
    IN [ email       |-> firebaseUser.email,
         role        |-> defaultRole,
         permissions |-> WithVersion(getPermissionsByRole(defaultRole),
                                     CURRENT_PERMISSIONS_VERSION),
         createdAt   |-> ServerTimestamp ]

\* The document a first login writes (lines 84-95).
newUserData(firebaseUser) ==
    [ email       |-> firebaseUser.email,
      role        |-> "user",
      permissions |-> WithVersion(getPermissionsByRole("user"),
                                  CURRENT_PERMISSIONS_VERSION),
      createdAt   |-> ServerTimestamp ]

\* setUser(...); setLoading(false): the end of a callback.
Finish(t, appUser) ==
    /\ user' = [user EXCEPT ![task[t].session] = appUser]
    /\ loading' = [loading EXCEPT ![task[t].session] = FALSE]
    /\ task' = [task EXCEPT ![t] = Idle]

\* A catch block that gives up and leaves the session without a user.
FirestoreFallback_SignsOut(t) == Finish(t, NoUser)

\* The catch block at lines 103-111.
FirestoreFallback(t) ==
    Finish(t, AppUser(task[t].firebaseUser, "user", getPermissionsByRole("user")))

\* A sync failure that is treated like a failed store read.
StaleUser_Fallback(t) ==
    AppUser(task[t].firebaseUser, "user", getPermissionsByRole("user"))

\* The catch at lines 72-75 swallows a sync failure, and line 79 then hands
\* over the role and the permissions the resolution read before the sync.
StaleUser(t) ==
    AppUser(task[t].firebaseUser, task[t].role, task[t].permissions)

\* permissions.version ?? 0 < CURRENT_PERMISSIONS_VERSION (lines 60-61)
IsStale(permissions) == storedVersionOf(permissions) < CURRENT_PERMISSIONS_VERSION

\* onAuthStateChanged delivers a notification to session s: a signed-in
\* identity, or null (NoUser) on sign-out.  With an identity the callback runs
\* up to its first await; with null it completes.
AuthStateChanged(s, firebaseUser) ==
    /\ inputs < MaxInputs
    /\ s = "s2" => authUser["s1"] # Unknown
    /\ inputs' = inputs + 1
    /\ IF firebaseUser = NoUser
       THEN /\ authUser[s] # SignedOut
            /\ authUser' = [authUser EXCEPT ![s] = SignedOut]
            /\ user' = [user EXCEPT ![s] = NoUser]
            /\ loading' = [loading EXCEPT ![s] = FALSE]
            /\ UNCHANGED task
       ELSE /\ authUser[s] # firebaseUser.uid
            /\ authUser' = [authUser EXCEPT ![s] = firebaseUser.uid]
            /\ \E free \in Tasks : task[free] = Idle
            /\ LET t == CHOOSE free \in Tasks : task[free] = Idle
               IN task' = [task EXCEPT ![t] =
                     [pc |-> "getDoc", session |-> s, firebaseUser |-> firebaseUser]]
            /\ UNCHANGED << user, loading >>
    /\ UNCHANGED << db, serverVars, bootstrapResult, syncResult,
                    directCall, modal, creates, overrides, watchVars >>

\* await getDoc(userRef) and the synchronous code after it (lines 49-61, 79-95).
GetDoc(t, readOk) ==
    /\ task[t].pc = "getDoc"
    /\ LET fu == task[t].firebaseUser
       IN IF ~readOk
          THEN FirestoreFallback(t)
          ELSE IF Exists(db, fu.uid)
          THEN LET data == db[fu.uid]
                   role == roleOf(data)
                   permissions == IF "permissions" \in DOMAIN data
                                  THEN data.permissions
                                  ELSE getPermissionsByRole(role)
               IN IF IsStale(permissions)
                  THEN /\ task' = [task EXCEPT ![t] =
                              [pc |-> "sync", session |-> task[t].session,
                               firebaseUser |-> fu, role |-> role,
                               permissions |-> permissions]]
                       /\ UNCHANGED << user, loading >>
                  ELSE Finish(t, AppUser(fu, role, permissions))
          ELSE /\ task' = [task EXCEPT ![t] =
                      [pc |-> "setDoc", session |-> task[t].session,
                       firebaseUser |-> fu]]
               /\ UNCHANGED << user, loading >>
    /\ UNCHANGED << db, serverVars, authUser, bootstrapResult,
                    syncResult, directCall, modal, creates, overrides, watchVars,
                    inputs >>

\* await firebaseUser.getIdToken(); await syncUserPermissionsAction(idToken),
\* up to the action's read (lines 63-64).  callOk is false when the token
\* fetch or the call itself throws.
CallSync(t, callOk, avail, readOk) ==
    /\ task[t].pc = "sync"
    /\ IF ~callOk
       THEN Finish(t, StaleUser(t))
       ELSE LET out == SyncRead(db, getIdToken(task[t].firebaseUser), avail, readOk)
            IN IF out.returns
               THEN Finish(t, StaleUser(t))
               ELSE /\ task' = [task EXCEPT ![t] =
                           [pc |-> "syncWrite", session |-> task[t].session,
                            firebaseUser |-> task[t].firebaseUser,
                            role |-> task[t].role,
                            permissions |-> task[t].permissions,
                            pending |-> [uid |-> out.uid, role |-> out.role]]]
                    /\ UNCHANGED << user, loading >>
    /\ UNCHANGED << db, serverVars, authUser, bootstrapResult,
                    syncResult, directCall, modal, creates, overrides, watchVars,
                    inputs >>

\* The action's write and return, and the caller's test of the result
\* (lines 65-71).  responseOk is false when the response never arrives.
SyncWriteStep(t, writeOk, responseOk) ==
    /\ task[t].pc = "syncWrite"
    /\ LET out == SyncWrite(db, task[t].pending, writeOk)
       IN /\ db' = out.store
          /\ IF responseOk /\ out.result.success /\ out.result.synced
             THEN /\ task' = [task EXCEPT ![t] =
                         [pc |-> "refetch", session |-> task[t].session,
                          firebaseUser |-> task[t].firebaseUser,
                          role |-> task[t].role,
                          permissions |-> task[t].permissions]]
                  /\ UNCHANGED << user, loading >>
             ELSE Finish(t, StaleUser(t))
    /\ UNCHANGED << serverVars, authUser, bootstrapResult,
                    syncResult, directCall, modal, creates, overrides, watchVars,
                    inputs >>

\* const freshSnap = await getDoc(userRef) and setUser (lines 67-79).
Refetch(t, readOk) ==
    /\ task[t].pc = "refetch"
    /\ LET fu == task[t].firebaseUser
       IN IF ~readOk
          THEN FirestoreFallback(t)
          ELSE LET permissions ==
                       IF Exists(db, fu.uid) /\ "permissions" \in DOMAIN db[fu.uid]
                       THEN db[fu.uid].permissions
                       ELSE task[t].permissions
               IN Finish(t, AppUser(fu, task[t].role, permissions))
    /\ UNCHANGED << db, serverVars, authUser, bootstrapResult,
                    syncResult, directCall, modal, creates, overrides, watchVars,
                    inputs >>

\* await setDoc(userRef, newUserData) and setUser (lines 96-101).
ProvisionWrite(store, firebaseUser) ==
    SetDoc(store, firebaseUser.uid, newUserData(firebaseUser))

SetDocStep(t, writeOk) ==
    /\ task[t].pc = "setDoc"
    /\ LET fu == task[t].firebaseUser
       IN IF ~writeOk
          THEN /\ FirestoreFallback(t)
               /\ UNCHANGED << db, creates >>
          ELSE /\ db' = ProvisionWrite(db, fu)
               /\ creates' = [creates EXCEPT ![fu.uid] = @ + 1]
               /\ Finish(t, AppUser(fu, "user",
                                    WithVersion(getPermissionsByRole("user"),
                                                CURRENT_PERMISSIONS_VERSION)))
    /\ UNCHANGED << serverVars, authUser, bootstrapResult,
                    syncResult, directCall, modal, overrides, watchVars, inputs >>

\* A timer that is only started by the provider's first notification.
Timeout_AfterNotification(s) ==
    /\ authUser[s] # Unknown
    /\ loading[s]
    /\ loading' = [loading EXCEPT ![s] = FALSE]
    /\ UNCHANGED << db, serverVars, authUser, user, task, bootstrapResult,
                    syncResult, directCall, modal, creates, overrides, watchVars, inputs >>

\* setTimeout(() => setLoading(false), 5000) (line 119).  The timer fires
\* once; loading is never set back to true, so a firing that finds loading
\* already false changes nothing.
Timeout(s) ==
    /\ loading[s]
    /\ loading' = [loading EXCEPT ![s] = FALSE]
    /\ UNCHANGED << db, serverVars, authUser, user, task, bootstrapResult,
                    syncResult, directCall, modal, creates, overrides, watchVars, inputs >>

\* ------------------------------------------------------------ usePermission
\* A default that grants what a plain user has.
DefaultPermissions_UserRole == PERMISSION_MATRIX["user"]

\* The object used when the context holds no user (lines 22-31).
DefaultPermissions == [k \in PermissionKeys |-> FALSE]

\* const permissions = user?.permissions ?? {...} in session s.
usePermission(s) ==
    IF user[s] = NoUser THEN DefaultPermissions ELSE user[s].permissions

\* permissions[permission] === true
can(s, permission) == usePermission(s)[permission] = TRUE

\* ------------------------------------------------- user-management surface
\* The users page is wrapped in <PermissionGuard require="canManageUsers">:
\* its writers are reachable from a session whose context passes the guard.
isAuthorized_AnyUser(s, requiredPermission) ==
    ~loading[s] /\ user[s] # NoUser

isAuthorized(s, requiredPermission) ==
    /\ ~loading[s]
    /\ user[s] # NoUser
    /\ user[s].permissions[requiredPermission] = TRUE

\* Where the guard's effect sends the browser (PermissionGuard lines 38-49);
\* Stay when it calls router.push for nothing.
Stay == "stay"

PermissionGuardEffect(s, requiredPermission, redirectTo) ==
    IF loading[s] THEN Stay
    ELSE IF user[s] = NoUser THEN "/login"
    ELSE IF ~user[s].permissions[requiredPermission] THEN redirectTo
    ELSE Stay

\* if (!isAuthorized) spinner; else children (lines 51-62)
RendersChildren(s, requiredPermission) == isAuthorized(s, requiredPermission)

AdminSurface == \E s \in Sessions : isAuthorized(s, "canManageUsers")

\* The flags the admin inputs below toggle or override.
ToggleKeys == {"canDeleteMovie", "canWatchContent"}

\* The checkbox the administrator ticks in the modal.
ModalKeys == {"canDeleteMovie"}

Closed == [open |-> FALSE]

\* The fields updateUserRole writes (lines 83-89).
RoleFields(newRole) ==
    [role |-> newRole, permissions |-> getPermissionsByRole(newRole)]

updateUserRole(uid, newRole, writeOk) ==
    /\ AdminSurface
    /\ inputs < MaxInputs
    /\ inputs' = inputs + 1
    /\ IF writeOk /\ Exists(db, uid)
       THEN db' = UpdateDoc(db, uid, RoleFields(newRole))
       ELSE UNCHANGED db
    /\ UNCHANGED << serverVars, clientVars, bootstrapResult,
                    syncResult, directCall, modal, creates, overrides, watchVars >>

updateUserPermission(uid, permissionKey, newValue, writeOk) ==
    /\ AdminSurface
    /\ inputs < MaxInputs
    /\ inputs' = inputs + 1
    /\ IF writeOk /\ Exists(db, uid)
       THEN /\ db' = UpdateNested(db, uid, permissionKey, newValue)
            /\ overrides' = [overrides EXCEPT ![uid] =
                  (permissionKey :> [value |-> newValue,
                                     at |-> CURRENT_PERMISSIONS_VERSION]) @@ @]
       ELSE UNCHANGED << db, overrides >>
    /\ UNCHANGED << serverVars, clientVars, bootstrapResult,
                    syncResult, directCall, modal, creates, watchVars >>

\* The modal is opened on a row of the users list (UserEditModal lines 30-33).
OpenModal(uid) ==
    /\ AdminSurface
    /\ modal = Closed
    /\ inputs < MaxInputs
    /\ inputs' = inputs + 1
    /\ Exists(db, uid)
    /\ LET role == roleOf(db[uid])
       IN modal' = [open |-> TRUE, uid |-> uid, role |-> role,
                    permissions |-> IF "permissions" \in DOMAIN db[uid]
                                    THEN db[uid].permissions
                                    ELSE getPermissionsByRole(role)]
    /\ UNCHANGED << db, serverVars, clientVars, bootstrapResult,
                    syncResult, directCall, creates, overrides, watchVars >>

handleRoleChange(newRole) ==
    /\ modal # Closed
    /\ modal' = [modal EXCEPT !.role = newRole,
                              !.permissions = getPermissionsByRole(newRole)]
    /\ UNCHANGED << db, serverVars, clientVars, bootstrapResult,
                    syncResult, directCall, creates, overrides, watchVars, inputs >>

handlePermissionToggle(key) ==
    /\ modal # Closed
    /\ modal' = [modal EXCEPT !.permissions = (key :> ~@[key]) @@ @]
    /\ UNCHANGED << db, serverVars, clientVars, bootstrapResult,
                    syncResult, directCall, creates, overrides, watchVars, inputs >>

\* The fields handleSave writes (lines 53-56).
SaveFields == [role |-> modal.role, permissions |-> modal.permissions]

handleSave(writeOk) ==
    /\ modal # Closed
    /\ IF writeOk
       THEN /\ db' = UpdateDoc(db, modal.uid, SaveFields)
            /\ modal' = Closed
       ELSE UNCHANGED << db, modal >>
    /\ UNCHANGED << serverVars, clientVars, bootstrapResult,
                    syncResult, directCall, creates, overrides, watchVars, inputs >>

onClose ==
    /\ modal # Closed
    /\ modal' = Closed
    /\ UNCHANGED << db, serverVars, clientVars, bootstrapResult,
                    syncResult, directCall, creates, overrides, watchVars, inputs >>

\* -------------------------------------------------------------- watch page
\* The titles of the library: one standard, one marked VIP.
Titles == { [id |-> "m1", isVip |-> FALSE], [id |-> "m2", isVip |-> TRUE] }

NoTitle == [id |-> "none", isVip |-> FALSE]

\* AuthGuard (lines 33-54) renders a page other than /login only when loading
\* is false and the context holds a user.
AuthGuardRenders(s) == ~loading[s] /\ user[s] # NoUser

\* The session navigates to /watch?id=... and the title is fetched.
OpenTitle(s, movie) ==
    /\ AuthGuardRenders(s)
    /\ page[s] # movie
    /\ page' = [page EXCEPT ![s] = movie]
    /\ UNCHANGED << db, serverVars, clientVars, bootstrapResult, syncResult,
                    directCall, modal, creates, overrides,
                    progress, inputs >>

\* movie.isVip && !can('canWatchVipContent') (line 197)
VipGate(s, movie) == movie.isVip /\ ~can(s, "canWatchVipContent")

\* WatchPageContent renders the player: the title is loaded and the VIP gate
\* does not return first (lines 165-222, 279).
PlayerShown(s) ==
    /\ AuthGuardRenders(s)
    /\ page[s] # NoTitle
    /\ ~VipGate(s, page[s])

\* if (user?.uid && movie?.id) await saveWatchProgress(...) (lines 131-141)
saveProgress(s, writeOk) ==
    IF user[s] # NoUser /\ writeOk
    THEN progress \cup { << user[s].uid, page[s].id >> }
    ELSE progress

\* An episode is picked in the player (lines 144-150): handleEpisodeChange
\* calls saveProgress.
handleEpisodeChange(s, writeOk) ==
    /\ PlayerShown(s)
    /\ progress' = saveProgress(s, writeOk)
    /\ UNCHANGED << db, serverVars, clientVars, bootstrapResult, syncResult,
                    directCall, modal, creates, overrides,
                    page, inputs >>

\* ---------------------------------------------------------------- redeploy
\* CURRENT_PERMISSIONS_VERSION is bumped by a deployment, between requests.
BumpVersion ==
    /\ CURRENT_PERMISSIONS_VERSION < MaxVersion
    /\ \A t \in Tasks : task[t] = Idle
    /\ directCall = Idle
    /\ CURRENT_PERMISSIONS_VERSION' = CURRENT_PERMISSIONS_VERSION + 1
    /\ UNCHANGED << db, adminEmail, clientVars, bootstrapResult,
                    syncResult, directCall, modal, creates, overrides, watchVars,
                    inputs >>

\* ------------------------------------------------------------ specification
EmptyStore == [u \in {} |-> Idle]

\* The collection outlives every process.  A run starts on the empty
\* collection, or on the one left by an earlier bootstrap of u1 and an earlier
\* first login of u2, both under schema version 1.
SeededStore ==
    SetDoc(SetMerge(EmptyStore, "u1", AdminFields(ADMIN_ADDRESS, 1)),
           "u2",
           [ email       |-> OTHER_ADDRESS,
             role        |-> "user",
             permissions |-> WithVersion(getPermissionsByRole("user"), 1),
             createdAt   |-> ServerTimestamp ])

Mounted ==
    /\ authUser = [s \in Sessions |-> Unknown]
    /\ user = [s \in Sessions |-> NoUser]
    /\ loading = [s \in Sessions |-> TRUE]

Fresh ==
    /\ CURRENT_PERMISSIONS_VERSION = 1
    /\ bootstrapResult = NoResult
    /\ syncResult = NoResult
    /\ directCall = Idle
    /\ task = [t \in Tasks |-> Idle]
    /\ modal = Closed
    /\ creates = [u \in Subjects |-> 0]
    /\ overrides = [u \in Subjects |-> << >>]
    /\ page = [s \in Sessions |-> NoTitle]
    /\ progress = {}
    /\ inputs = 0

\* A run starts with both sessions just mounted.
Init ==
    /\ \/ db = EmptyStore /\ adminEmail \in {Unset, ADMIN_ADDRESS}
       \/ db = SeededStore /\ adminEmail = ADMIN_ADDRESS
    /\ Mounted
    /\ Fresh

\* The collection left by an earlier bootstrap of u1 alone.
BootstrappedStore == SetMerge(EmptyStore, "u1", AdminFields(ADMIN_ADDRESS, 1))

\* Session s1 as an earlier resolution of the administrator u1 left it
\* (lines 51-54, 79, 115): the context holds the stored role and permissions
\* and loading is false.
AdminSignedIn ==
    /\ authUser = [s \in Sessions |-> IF s = "s1" THEN "u1" ELSE Unknown]
    /\ user = [s \in Sessions |->
                 IF s = "s1"
                 THEN AppUser([uid |-> "u1", email |-> ADMIN_ADDRESS],
                              roleOf(db["u1"]), db["u1"].permissions)
                 ELSE NoUser]
    /\ loading = [s \in Sessions |-> s # "s1"]

\* A run that starts with the administrator already signed in on s1.
InitAdmin ==
    /\ db \in {SeededStore, BootstrappedStore}
    /\ adminEmail = ADMIN_ADDRESS
    /\ AdminSignedIn
    /\ Fresh

Next ==
    \/ \E idToken \in Tokens, avail \in BOOLEAN, writeOk \in BOOLEAN :
          bootstrapAdminAction(idToken, avail, writeOk)
    \/ \E idToken \in Tokens, avail \in BOOLEAN, readOk \in BOOLEAN :
          DirectSyncStart(idToken, avail, readOk)
    \/ \E writeOk \in BOOLEAN : DirectSyncWrite(writeOk)
    \/ \E s \in Sessions, fu \in Identities \cup {NoUser} :
          AuthStateChanged(s, fu)
    \/ \E t \in Tasks, readOk \in BOOLEAN : GetDoc(t, readOk)
    \/ \E t \in Tasks, callOk \in BOOLEAN, avail \in BOOLEAN, readOk \in BOOLEAN :
          CallSync(t, callOk, avail, readOk)
    \/ \E t \in Tasks, writeOk \in BOOLEAN, responseOk \in BOOLEAN :
          SyncWriteStep(t, writeOk, responseOk)
    \/ \E t \in Tasks, readOk \in BOOLEAN : Refetch(t, readOk)
    \/ \E t \in Tasks, writeOk \in BOOLEAN : SetDocStep(t, writeOk)
    \/ \E s \in Sessions : Timeout(s)
    \/ \E uid \in Subjects, newRole \in UserRole, writeOk \in BOOLEAN :
          updateUserRole(uid, newRole, writeOk)
    \/ \E uid \in Subjects, key \in ToggleKeys, newValue \in BOOLEAN, writeOk \in BOOLEAN :
          updateUserPermission(uid, key, newValue, writeOk)
    \/ \E uid \in Subjects : OpenModal(uid)
    \/ \E newRole \in UserRole : handleRoleChange(newRole)
    \/ \E key \in ModalKeys : handlePermissionToggle(key)
    \/ \E writeOk \in BOOLEAN : handleSave(writeOk)
    \/ onClose
    \/ BumpVersion

Spec == Init /\ [][Next]_vars

SpecAdmin == InitAdmin /\ [][Next]_vars

\* The same program with the watch page in use.
NextWatch ==
    \/ Next
    \/ \E s \in Sessions, movie \in Titles : OpenTitle(s, movie)
    \/ \E s \in Sessions, writeOk \in BOOLEAN : handleEpisodeChange(s, writeOk)

SpecWatch == InitAdmin /\ [][NextWatch]_vars

\* One await of resolution t settles: the promise resolves or rejects and the
\* callback runs on to its next await or to its end.
Settle(t) ==
    \/ \E readOk \in BOOLEAN : GetDoc(t, readOk)
    \/ \E callOk \in BOOLEAN, avail \in BOOLEAN, readOk \in BOOLEAN :
          CallSync(t, callOk, avail, readOk)
    \/ \E writeOk \in BOOLEAN, responseOk \in BOOLEAN :
          SyncWriteStep(t, writeOk, responseOk)
    \/ \E readOk \in BOOLEAN : Refetch(t, readOk)
    \/ \E writeOk \in BOOLEAN : SetDocStep(t, writeOk)

\* Every store read, store write and sync call a resolution awaits eventually
\* returns or fails.
SpecSettle == Spec /\ \A t \in Tasks : WF_vars(Settle(t))

\* The event loop runs a timer that is due: the safety timeout of a mounted
\* session fires unless loading has been cleared before.
SpecTimer == Spec /\ \A s \in Sessions : WF_vars(Timeout(s))

\* ================================================================== claims
\* The record of subject u is the same before and after the step.
Unwritten(u) ==
    /\ Exists(db', u) <=> Exists(db, u)
    /\ Exists(db, u) => db'[u] = db[u]

\* The provider verifies this credential: it is genuine and the provider is up.
Accepted(idToken, avail) == idToken.valid /\ avail

IsAdmin(store, u) == Exists(store, u) /\ roleOf(store[u]) = "admin"

AllTrue == [k \in PermissionKeys |-> TRUE]

\* The record of u carries role admin, all eight flags and the current version.
HasAdminGrant(store, u) ==
    /\ Exists(store, u)
    /\ "role" \in DOMAIN store[u] /\ store[u].role = "admin"
    /\ "permissions" \in DOMAIN store[u]
    /\ FlagsOf(store[u].permissions) = AllTrue
    /\ "version" \in DOMAIN store[u].permissions
    /\ store[u].permissions.version = CURRENT_PERMISSIONS_VERSION

\* C1: every store write of bootstrapAdminAction and syncUserPermissionsAction
\* goes to the record of the subject the provider verifies the supplied
\* credential as; when verification fails (credential not genuine, or provider
\* unreachable) the action writes nothing and returns a failure.
ZeroTrustWriteTarget ==
    [][ /\ inputs' # inputs =>
             /\ \A idToken \in Tokens, avail \in BOOLEAN, writeOk \in BOOLEAN :
                  bootstrapAdminAction(idToken, avail, writeOk) =>
                     IF Accepted(idToken, avail)
                     THEN \A u \in Subjects \ {idToken.uid} : Unwritten(u)
                     ELSE db' = db /\ bootstrapResult'.success = FALSE
             /\ \A idToken \in Tokens, avail \in BOOLEAN, readOk \in BOOLEAN :
                  DirectSyncStart(idToken, avail, readOk) =>
                     /\ db' = db
                     /\ ~Accepted(idToken, avail) =>
                           directCall' = Idle /\ syncResult'.success = FALSE
                     /\ directCall' # Idle => directCall'.uid = idToken.uid
        /\ directCall # Idle =>
             \A writeOk \in BOOLEAN :
                DirectSyncWrite(writeOk) =>
                   /\ directCall.idToken.valid
                   /\ \A u \in Subjects \ {directCall.idToken.uid} : Unwritten(u)
        /\ \A t \in Tasks :
             task'[t] # task[t] =>
                /\ \A callOk \in BOOLEAN, avail \in BOOLEAN, readOk \in BOOLEAN :
                     CallSync(t, callOk, avail, readOk) =>
                        /\ db' = db
                        /\ task'[t].pc = "syncWrite" =>
                              avail /\ task'[t].pending.uid = task[t].firebaseUser.uid
                /\ \A writeOk \in BOOLEAN, responseOk \in BOOLEAN :
                     SyncWriteStep(t, writeOk, responseOk) =>
                        \A u \in Subjects \ {task[t].firebaseUser.uid} : Unwritten(u)
      ]_vars

\* C1 witness: a promotion has written the record of u1, and only that one.
ZeroTrustWriteTargetWitness ==
    /\ bootstrapResult = Promoted
    /\ IsAdmin(db, "u1")
    /\ ~Exists(db, "u2")

\* C2: any step that makes a subject's persisted role admin, from a non-admin
\* role or from no record, is a bootstrapAdminAction step with a verified
\* credential of that subject whose email claim is the allow-listed email.
ElevationOnlyByPromote ==
    [][ \A u \in Subjects :
          (IsAdmin(db', u) /\ ~IsAdmin(db, u)) =>
             \E idToken \in Tokens, writeOk \in BOOLEAN :
                /\ idToken.valid /\ idToken.uid = u
                /\ adminEmail # Unset /\ idToken.email = adminEmail
                /\ bootstrapAdminAction(idToken, TRUE, writeOk)
      ]_vars

\* C3: a promote call with a verified credential whose email claim differs from
\* the configured ADMIN_EMAIL (a missing claim included) returns Denied and
\* leaves the whole store as it was.
DeniedLeavesStore ==
    [][ \A idToken \in Tokens, avail \in BOOLEAN, writeOk \in BOOLEAN :
          ( /\ bootstrapAdminAction(idToken, avail, writeOk)
            /\ Accepted(idToken, avail)
            /\ adminEmail # Unset
            /\ idToken.email # adminEmail )
          => bootstrapResult' = Denied /\ db' = db
      ]_vars

\* C3 witness: a denial has been returned on the empty store, still empty.
DeniedLeavesStoreWitness ==
    /\ bootstrapResult = Denied
    /\ adminEmail = ADMIN_ADDRESS
    /\ db = EmptyStore

\* C4: a promote call with a verified credential whose email claim is the
\* configured ADMIN_EMAIL, whose write reaches the store, returns success and
\* leaves the subject with role admin, all eight flags true and the current
\* version, whatever the record was; on a record that already has these the
\* call changes neither role nor permissions.
PromoteSetsAdmin ==
    [][ \A idToken \in Tokens, avail \in BOOLEAN :
          ( /\ bootstrapAdminAction(idToken, avail, TRUE)
            /\ Accepted(idToken, avail)
            /\ adminEmail # Unset
            /\ idToken.email = adminEmail )
          => /\ bootstrapResult' = Promoted
             /\ HasAdminGrant(db', idToken.uid)
             /\ HasAdminGrant(db, idToken.uid) =>
                   /\ db'[idToken.uid].role = db[idToken.uid].role
                   /\ db'[idToken.uid].permissions = db[idToken.uid].permissions
      ]_vars

\* C4 witness: a promotion has succeeded on a record that a first login had
\* created with role user.
PromoteSetsAdminWitness ==
    /\ bootstrapResult = Promoted
    /\ Exists(db, "u1")
    /\ "createdAt" \in DOMAIN db["u1"]
    /\ HasAdminGrant(db, "u1")

\* C5: with ADMIN_EMAIL missing, a promote call with any verified credential
\* returns the misconfiguration result, which is neither Denied nor success,
\* and writes nothing.
MisconfiguredIsDistinct ==
    [][ \A idToken \in Tokens, avail \in BOOLEAN, writeOk \in BOOLEAN :
          ( /\ bootstrapAdminAction(idToken, avail, writeOk)
            /\ Accepted(idToken, avail)
            /\ adminEmail = Unset )
          => /\ bootstrapResult'.error = "Server misconfiguration: ADMIN_EMAIL not set."
             /\ bootstrapResult' # Denied
             /\ bootstrapResult'.success = FALSE
             /\ db' = db
      ]_vars

\* C5 witness: the misconfiguration result has been returned.
MisconfiguredIsDistinctWitness ==
    /\ adminEmail = Unset
    /\ bootstrapResult = Misconfigured

\* C6: when a promote call is denied, its result and the store it leaves are
\* those any other verified credential with a non-matching email claim would
\* have got in the same state, under any configured allow-list value.
DeniedIsUninformative ==
    [][ \A idToken \in Tokens, avail \in BOOLEAN, writeOk \in BOOLEAN :
          ( /\ bootstrapAdminAction(idToken, avail, writeOk)
            /\ Accepted(idToken, avail)
            /\ adminEmail # Unset
            /\ idToken.email # adminEmail )
          => \A env \in {ADMIN_ADDRESS, OTHER_ADDRESS} :
               \A other \in {o \in Tokens : o.valid /\ o.email # env} :
                  LET alt == BootstrapOutcome(db, env, other, TRUE, writeOk)
                  IN alt.result = bootstrapResult' /\ alt.store = db'
      ]_vars

\* C6 witness: a denial has been returned against a store that holds records.
DeniedIsUninformativeWitness ==
    /\ bootstrapResult = Denied
    /\ db = SeededStore
    /\ inputs = 2

CurrentRecordNoWrite ==
    [][ /\ \A t \in Tasks :
             ( /\ GetDoc(t, TRUE)
               /\ Exists(db, task[t].firebaseUser.uid)
               /\ "version" \in DOMAIN db[task[t].firebaseUser.uid].permissions
               /\ db[task[t].firebaseUser.uid].permissions.version
                     >= CURRENT_PERMISSIONS_VERSION )
             => /\ db' = db
                /\ task'[t] = Idle
                /\ user'[task[t].session] =
                      [ uid         |-> task[t].firebaseUser.uid,
                        role        |-> db[task[t].firebaseUser.uid].role,
                        permissions |-> db[task[t].firebaseUser.uid].permissions ]
        /\ \A idToken \in Tokens :
             ( /\ DirectSyncStart(idToken, TRUE, TRUE)
               /\ idToken.valid
               /\ Exists(db, idToken.uid)
               /\ "version" \in DOMAIN db[idToken.uid].permissions
               /\ db[idToken.uid].permissions.version >= CURRENT_PERMISSIONS_VERSION )
             => /\ db' = db
                /\ directCall' = Idle
                /\ syncResult' = [success |-> TRUE, synced |-> FALSE]
      ]_vars

\* C8 witness: a direct call has reported synced = false and a session holds
\* the permissions of a record at the current version.
CurrentRecordNoWriteWitness ==
    /\ syncResult = [success |-> TRUE, synced |-> FALSE]
    /\ \E s \in Sessions :
          /\ user[s] # NoUser
          /\ "version" \in DOMAIN user[s].permissions
          /\ user[s].permissions.version = CURRENT_PERMISSIONS_VERSION
          /\ user[s].permissions = db[user[s].uid].permissions

\* C9: a subject's record is created at most once, also when two first logins
\* of the subject run concurrently.
CreateAtMostOnce == \A u \in Subjects : creates[u] <= 1

\* C10: the provisioning write of a first login never overwrites a record that
\* exists when it is made; a role persisted as admin is never reset by it.
ProvisionNeverOverwrites ==
    [][ \A t \in Tasks, writeOk \in BOOLEAN :
          SetDocStep(t, writeOk) =>
             /\ Exists(db, task[t].firebaseUser.uid) =>
                   Unwritten(task[t].firebaseUser.uid)
             /\ \A u \in Subjects : IsAdmin(db, u) => IsAdmin(db', u)
      ]_vars

\* The context of session s holds uid, role and the eight flags given.
Holds(ctx, uid, role, flags) ==
    /\ ctx # NoUser
    /\ ctx.uid = uid
    /\ ctx.role = role
    /\ FlagsOf(ctx.permissions) = flags

UserFlags == [k \in PermissionKeys |-> k \in {"canWatchContent", "canSaveProgress"}]

\* C11: the provisioning write of a first login leaves the subject's record
\* with role user, the flags of role user and the current version, and hands
\* that role and those permissions to the session context, whatever the
\* subject's email claim is, the allow-listed email included.
FirstLoginCreatesUser ==
    [][ \A t \in Tasks :
          SetDocStep(t, TRUE) =>
             LET u == task[t].firebaseUser.uid
             IN /\ Exists(db', u)
                /\ "role" \in DOMAIN db'[u] /\ db'[u].role = "user"
                /\ FlagsOf(db'[u].permissions) = UserFlags
                /\ "version" \in DOMAIN db'[u].permissions
                /\ db'[u].permissions.version = CURRENT_PERMISSIONS_VERSION
                /\ Holds(user'[task[t].session], u, "user", UserFlags)
                /\ "version" \in DOMAIN user'[task[t].session].permissions
                /\ user'[task[t].session].permissions.version
                      = CURRENT_PERMISSIONS_VERSION
                /\ ~loading'[task[t].session]
      ]_vars

\* C11 witness: the subject with the allow-listed email has logged in for the
\* first time and is a plain user, in the store and in the session.
FirstLoginCreatesUserWitness ==
    /\ adminEmail = ADMIN_ADDRESS
    /\ creates["u1"] = 1
    /\ db["u1"].email = ADMIN_ADDRESS
    /\ db["u1"].role = "user"
    /\ \E s \in Sessions : Holds(user[s], "u1", "user", UserFlags)

\* The sync of resolution t fails in this step: the call throws (token fetch,
\* network), or the action returns a failure.
SyncFailsBeforeWrite(t) ==
    \E callOk \in BOOLEAN, avail \in BOOLEAN, readOk \in BOOLEAN :
       /\ CallSync(t, callOk, avail, readOk)
       /\ ~callOk \/ ~avail \/ ~readOk \/ ~Exists(db, task[t].firebaseUser.uid)

SyncWriteFails(t) ==
    \E responseOk \in BOOLEAN : SyncWriteStep(t, FALSE, responseOk)

SyncResponseLost(t) == SyncWriteStep(t, TRUE, FALSE)

\* The resolution completes with the role and the stale permissions it read.
CompletesStale(t) ==
    /\ task'[t] = Idle
    /\ ~loading'[task[t].session]
    /\ user'[task[t].session] =
          [ uid         |-> task[t].firebaseUser.uid,
            role        |-> task[t].role,
            permissions |-> task[t].permissions ]
    /\ storedVersionOf(task[t].permissions) < CURRENT_PERMISSIONS_VERSION

\* A resolution that reads the record of its subject as stale goes on to the
\* sync call.
StaleReadAttemptsSync ==
    \A t \in Tasks :
       ( /\ GetDoc(t, TRUE)
         /\ Exists(db, task[t].firebaseUser.uid)
         /\ "permissions" \in DOMAIN db[task[t].firebaseUser.uid]
         /\ storedVersionOf(db[task[t].firebaseUser.uid].permissions)
               < CURRENT_PERMISSIONS_VERSION )
       => task'[t].pc = "sync"

\* C12 as stated: on every sync failure, a thrown call included, the
\* resolution completes with the stale context and the store is unchanged.
ResyncFailureLeavesRecord ==
    [][ \A t \in Tasks :
          (SyncFailsBeforeWrite(t) \/ SyncWriteFails(t) \/ SyncResponseLost(t))
          => CompletesStale(t) /\ db' = db
      ]_vars

\* C12: on every sync failure the resolution completes with the context
\* holding the role and the stale permissions it read; the store is unchanged
\* when the action returns a failure or the call throws before the action's
\* write, while a call that throws after the write was committed (response
\* lost) leaves the record at the current version; and every later resolution
\* that reads a stale record attempts the sync again.
ResyncFailureNonFatal ==
    [][ /\ \A t \in Tasks :
             /\ (SyncFailsBeforeWrite(t) \/ SyncWriteFails(t))
                   => CompletesStale(t) /\ db' = db
             /\ SyncResponseLost(t)
                   => /\ CompletesStale(t)
                      /\ db'[task[t].firebaseUser.uid].permissions.version
                            = CURRENT_PERMISSIONS_VERSION
        /\ StaleReadAttemptsSync
      ]_vars

\* C12 witness: after one notification and nothing else, the record is at
\* version 2 by the resolution's own sync write while the session, whose
\* call threw, holds the permissions of version 1.
ResyncFailureNonFatalWitness ==
    /\ inputs = 1
    /\ CURRENT_PERMISSIONS_VERSION = 2
    /\ authUser["s1"] = "u2"
    /\ task = [t \in Tasks |-> Idle]
    /\ Exists(db, "u2")
    /\ db["u2"].permissions.version = 2
    /\ Holds(user["s1"], "u2", "user", UserFlags)
    /\ "version" \in DOMAIN user["s1"].permissions
    /\ user["s1"].permissions.version = 1

\* C13: updateUserPermission changes the named flag of the named subject's
\* record and nothing else: every other field of the record, the role, the
\* version and the seven other flags are as before, and so is every other
\* record; on a missing record it changes nothing.
OverrideFrame ==
    [][ \A uid \in Subjects, key \in ToggleKeys, newValue \in BOOLEAN, writeOk \in BOOLEAN :
          updateUserPermission(uid, key, newValue, writeOk) =>
             /\ \A u \in Subjects \ {uid} : Unwritten(u)
             /\ Exists(db', uid) <=> Exists(db, uid)
             /\ Exists(db, uid) =>
                   /\ DOMAIN db'[uid] = DOMAIN db[uid]
                   /\ \A f \in DOMAIN db[uid] \ {"permissions"} :
                         db'[uid][f] = db[uid][f]
                   /\ DOMAIN db'[uid].permissions = DOMAIN db[uid].permissions
                   /\ \A k \in DOMAIN db[uid].permissions \ {key} :
                         db'[uid].permissions[k] = db[uid].permissions[k]
                   /\ writeOk => db'[uid].permissions[key] = newValue
      ]_vars

\* C13 witness: an override has granted canDeleteMovie to the plain user u2,
\* whose role, version and other flags are those of the seeded record.
OverrideFrameWitness ==
    /\ "canDeleteMovie" \in DOMAIN overrides["u2"]
    /\ overrides["u2"]["canDeleteMovie"].value = TRUE
    /\ db["u2"].permissions =
          [SeededStore["u2"].permissions EXCEPT !.canDeleteMovie = TRUE]
    /\ db["u2"].role = "user"
    /\ db["u1"] = SeededStore["u1"]

\* C14: a flag that updateUserPermission set to a value other than the role's
\* default, and that is still in place when the schema version has been bumped
\* since, keeps that value through the write of a successful resync.
OverrideSurvivesResync ==
    [][ \A t \in Tasks, responseOk \in BOOLEAN :
          SyncWriteStep(t, TRUE, responseOk) =>
             LET u == task[t].firebaseUser.uid
             IN \A k \in DOMAIN overrides[u] :
                   ( /\ overrides[u][k].at < CURRENT_PERMISSIONS_VERSION
                     /\ db[u].permissions[k] = overrides[u][k].value
                     /\ overrides[u][k].value # PERMISSION_MATRIX[roleOf(db[u])][k] )
                   => db'[u].permissions[k] = overrides[u][k].value
      ]_vars

\* The record of u carries role r, the flags of r and the current version.
HasRoleDefaults(store, u, r) ==
    /\ "role" \in DOMAIN store[u] /\ store[u].role = r
    /\ FlagsOf(store[u].permissions) = PERMISSION_MATRIX[r]
    /\ "version" \in DOMAIN store[u].permissions
    /\ store[u].permissions.version = CURRENT_PERMISSIONS_VERSION

\* C15: a role change that reaches the store, by updateUserRole or by the
\* modal's save after a change of role, leaves the record with the new role,
\* the flags of that role and the current version.
RoleChangePostcondition ==
    [][ /\ \A uid \in Subjects, newRole \in UserRole :
             (updateUserRole(uid, newRole, TRUE) /\ Exists(db, uid))
             => HasRoleDefaults(db', uid, newRole)
        /\ ( /\ handleSave(TRUE)
             /\ modal.role # roleOf(db[modal.uid])
             /\ FlagsOf(modal.permissions) = PERMISSION_MATRIX[modal.role] )
           => HasRoleDefaults(db', modal.uid, modal.role)
      ]_vars

\* C16: with no user in the context can() is false for every key, and with a
\* user it is true exactly for the flags the context holds as true.
CanFailsClosed ==
    \A s \in Sessions, k \in PermissionKeys :
       /\ user[s] = NoUser => ~can(s, k)
       /\ user[s] # NoUser => (can(s, k) <=> user[s].permissions[k] = TRUE)

\* C16 witness: one session holds the administrator's context and can manage
\* users; the other has processed a sign-out and can do nothing.
CanFailsClosedWitness ==
    /\ Holds(user["s1"], "u1", "admin", AllTrue)
    /\ can("s1", "canManageUsers")
    /\ authUser["s2"] = SignedOut
    /\ user["s2"] = NoUser
    /\ \A k \in PermissionKeys : ~can("s2", k)

\* C17: while the last notification a session has processed is a sign-out,
\* can() is false for every key.
SignOutSticky ==
    \A s \in Sessions :
       authUser[s] = SignedOut => \A k \in PermissionKeys : ~can(s, k)

\* Resolution t was started by a notification that is no longer the latest
\* one of its session.
Superseded(t) ==
    /\ task[t] # Idle
    /\ authUser[task[t].session] # task[t].firebaseUser.uid

\* C18: a resolution superseded by a later notification of its session
\* performs no store write and no context update.
SupersededIsInert ==
    [][ \A t \in Tasks :
          (Superseded(t) /\ task'[t] # task[t]) => (db' = db /\ user' = user)
      ]_vars

\* C19: in every session loading eventually becomes false, whether or not
\* the provider ever notifies and whether or not a store or sync call ever
\* returns; and when the timeout fires, no resolution having completed, the
\* context it leaves is null.
BoundedWait ==
    /\ \A s \in Sessions : <>(~loading[s])
    /\ [][ \A s \in Sessions :
             Timeout(s) => (user[s] = NoUser /\ user'[s] = NoUser) ]_vars

\* C19 witness: the timeout has fired in s1 while its resolution still awaits
\* the store, and in s2 which never heard from the provider; both contexts
\* are null.
BoundedWaitWitness ==
    /\ \E t \in Tasks : task[t].pc = "getDoc" /\ task[t].session = "s1"
    /\ ~loading["s1"] /\ user["s1"] = NoUser
    /\ authUser["s2"] = Unknown
    /\ ~loading["s2"] /\ user["s2"] = NoUser

\* C20: while the resolution started by the latest notification of a session
\* is in flight, loading is true in that session.
LoadingWhileResolving ==
    \A t \in Tasks :
       ( /\ task[t] # Idle
         /\ authUser[task[t].session] = task[t].firebaseUser.uid )
       => loading[task[t].session]

\* The flags the specification's matrix sets for a role.
GrantedTo(r) ==
    CASE r = "admin"  -> PermissionKeys
      [] r = "editor" -> PermissionKeys \ {"canManageUsers", "canDeleteMovie"}
      [] r = "vip"    -> {"canWatchVipContent", "canWatchContent",
                          "canSaveProgress"}
      [] r = "user"   -> {"canWatchContent", "canSaveProgress"}
      [] r = "banned" -> {}

\* C21: the matrix is defined for exactly the five roles and gives each
\* exactly the eight flags: admin all true; editor all true except
\* manage-users and delete-content; vip only the three watch flags; user only
\* watch-content and persist-progress; banned none.  A role change stores
\* exactly that row.
CapabilityMatrix ==
    [][ /\ DOMAIN PERMISSION_MATRIX = UserRole
        /\ \A r \in UserRole :
              /\ DOMAIN getPermissionsByRole(r) = PermissionKeys
              /\ \A k \in PermissionKeys :
                    getPermissionsByRole(r)[k] = (k \in GrantedTo(r))
        /\ inputs' # inputs =>
              \A uid \in Subjects, newRole \in UserRole :
                 (updateUserRole(uid, newRole, TRUE) /\ Exists(db, uid)) =>
                    /\ db'[uid].role = newRole
                    /\ DOMAIN db'[uid].permissions = PermissionKeys
                    /\ \A k \in PermissionKeys :
                          db'[uid].permissions[k] = (k \in GrantedTo(newRole))
      ]_vars

\* C21 witness: a role change has made u2 an editor, and the record holds the
\* editor row.
CapabilityMatrixWitness ==
    /\ Exists(db, "u2")
    /\ "version" \notin DOMAIN db["u2"].permissions
    /\ db["u2"].role = "editor"
    /\ \A k \in PermissionKeys :
          db["u2"].permissions[k] =
             (k \notin {"canManageUsers", "canDeleteMovie"})

\* C22: the permission guard renders its children only when loading is
\* false, the context is populated and the required flag is true; with
\* loading false and a null context it redirects to /login; with a populated
\* context whose flag is not true it redirects to redirectTo (default /) and
\* does not render the children.
GuardRendersOnlyAuthorized ==
    \A s \in Sessions, k \in PermissionKeys :
       /\ RendersChildren(s, k) =>
             (~loading[s] /\ user[s] # NoUser /\ user[s].permissions[k] = TRUE)
       /\ (~loading[s] /\ user[s] = NoUser) =>
             (PermissionGuardEffect(s, k, "/") = "/login" /\ ~RendersChildren(s, k))
       /\ (~loading[s] /\ user[s] # NoUser /\ user[s].permissions[k] # TRUE) =>
             \A redirectTo \in {"/", "/admin"} :
                /\ PermissionGuardEffect(s, k, redirectTo) = redirectTo
                /\ ~RendersChildren(s, k)

\* C22 witness: the administrator's session passes the canManageUsers guard
\* while a plain user's session is sent to / by the same guard.
GuardRendersOnlyAuthorizedWitness ==
    /\ Holds(user["s1"], "u1", "admin", AllTrue)
    /\ ~loading["s1"]
    /\ RendersChildren("s1", "canManageUsers")
    /\ PermissionGuardEffect("s1", "canManageUsers", "/") = Stay
    /\ user["s2"] # NoUser /\ user["s2"].uid = "u2" /\ ~loading["s2"]
    /\ ~RendersChildren("s2", "canManageUsers")
    /\ PermissionGuardEffect("s2", "canManageUsers", "/") = "/"

\* The sync call of resolution t returns success without writing: the record
\* it reads is already at the current version.
SyncReportsCurrent(t) ==
    /\ task[t] # Idle
    /\ task[t].pc = "sync"
    /\ CallSync(t, TRUE, TRUE, TRUE)
    /\ Exists(db, task[t].firebaseUser.uid)
    /\ "permissions" \in DOMAIN db[task[t].firebaseUser.uid]
    /\ ~IsStale(db[task[t].firebaseUser.uid].permissions)

\* C23: when a resolution that read a stale record completes after a sync
\* call that returned success, the context holds the permissions of the
\* record as it is stored at the current version: after a re-read that
\* follows a write, and equally when the call reported that no write was
\* needed.
ResyncHandsCurrentRecord ==
    [][ \A t \in Tasks :
          task'[t] # task[t] =>
            /\ SyncReportsCurrent(t) =>
                  user'[task[t].session].permissions =
                     db[task[t].firebaseUser.uid].permissions
            /\ ( /\ task[t] # Idle
                 /\ task[t].pc = "refetch"
                 /\ Refetch(t, TRUE)
                 /\ Exists(db, task[t].firebaseUser.uid)
                 /\ "permissions" \in DOMAIN db[task[t].firebaseUser.uid] ) =>
                  user'[task[t].session].permissions =
                     db[task[t].firebaseUser.uid].permissions
      ]_vars

\* C24: a sign-in notification whose store reads and sync call each
\* eventually return or fail leads to a context populated for the notified
\* subject with loading false: every resolution that is started ends, and
\* every branch that ends one (record current, resynced, sync failed, first
\* login, store failure) populates the context of its session for its
\* subject and clears loading.
SignInNeverBlocked ==
    /\ \A t \in Tasks : []<>(task[t] = Idle)
    /\ [][ \A t \in Tasks :
             (task[t] # Idle /\ task'[t] = Idle) =>
                /\ user'[task[t].session] # NoUser
                /\ user'[task[t].session].uid = task[t].firebaseUser.uid
                /\ ~loading'[task[t].session] ]_vars

\* C24 witness: u2 has no record and the store failed its first sign-in; the
\* resolution has ended and the session holds u2 with the defaults of a user.
SignInNeverBlockedWitness ==
    /\ authUser["s1"] = "u2"
    /\ ~Exists(db, "u2")
    /\ \A t \in Tasks : task[t] = Idle
    /\ Holds(user["s1"], "u2", "user", UserFlags)
    /\ ~loading["s1"]

\* C25: a resync and a role change of the same subject that run concurrently
\* leave, with no override involved, a record whose flags are the matrix row
\* of its role: the resync never writes the row of a role that is no longer
\* the stored one when it writes.
SyncWritesStoredRole ==
    [][ db' # db =>
          \A t \in Tasks :
             ( /\ task[t] # Idle
               /\ task[t].pc = "syncWrite"
               /\ \E responseOk \in BOOLEAN : SyncWriteStep(t, TRUE, responseOk)
               /\ overrides[task[t].pending.uid] = << >> ) =>
                /\ task[t].pending.role = roleOf(db[task[t].pending.uid])
                /\ FlagsOf(db'[task[t].pending.uid].permissions) =
                      FlagsOf(getPermissionsByRole(roleOf(db'[task[t].pending.uid])))
      ]_vars

\* C26: the role and the permissions of a context come from one snapshot of
\* the record: after a resync the role handed over is the role of the record
\* read again, also when the role was changed between the two reads.
RefetchHandsOneSnapshot ==
    [][ \A t \in Tasks :
          ( /\ task[t] # Idle
            /\ task[t].pc = "refetch"
            /\ Refetch(t, TRUE)
            /\ Exists(db, task[t].firebaseUser.uid)
            /\ "permissions" \in DOMAIN db[task[t].firebaseUser.uid] ) =>
             /\ user'[task[t].session].permissions =
                   db[task[t].firebaseUser.uid].permissions
             /\ user'[task[t].session].role =
                   roleOf(db[task[t].firebaseUser.uid])
      ]_vars

\* The record of u says banned and grants nothing.
IsBanned(store, u) ==
    /\ Exists(store, u)
    /\ roleOf(store[u]) = "banned"
    /\ "permissions" \in DOMAIN store[u]
    /\ \A k \in PermissionKeys : store[u].permissions[k] = FALSE

\* C27: a resolution for a subject whose record is role banned with all
\* eight flags false never leaves a context in which can(k) is true for some
\* k, also when its store read fails.
BannedNeverFailsOpen ==
    [][ \A t \in Tasks :
          ( /\ task[t] # Idle
            /\ task'[t] = Idle
            /\ IsBanned(db, task[t].firebaseUser.uid)
            /\ IsBanned(db', task[t].firebaseUser.uid) ) =>
             \A k \in PermissionKeys :
                ~( /\ user'[task[t].session] # NoUser
                   /\ user'[task[t].session].permissions[k] = TRUE )
      ]_vars

\* The permissions of u's record are those an admin role change stored (with
\* or without toggles saved from the modal): a whole permissions map without
\* a version tag, which no other writer produces.
AdminSavedRecord(store, u) ==
    /\ Exists(store, u)
    /\ "permissions" \in DOMAIN store[u]
    /\ "version" \notin DOMAIN store[u].permissions

\* C28: with the schema version unchanged, a resolution of the subject that
\* has read a record persisted by an admin role change writes nothing to the
\* store and hands over exactly the flags the admin saved.
AdminSaveSurvivesLogin ==
    [][ \A t \in Tasks :
          ( /\ task[t] # Idle
            /\ task[t].pc \in {"sync", "syncWrite", "refetch"}
            /\ task'[t] # task[t]
            /\ CURRENT_PERMISSIONS_VERSION' = CURRENT_PERMISSIONS_VERSION
            /\ AdminSavedRecord(db, task[t].firebaseUser.uid)
            /\ task[t].permissions = db[task[t].firebaseUser.uid].permissions
            /\ task[t].role = roleOf(db[task[t].firebaseUser.uid]) ) =>
             /\ db' = db
             /\ task'[t] = Idle =>
                   FlagsOf(user'[task[t].session].permissions) =
                      FlagsOf(db[task[t].firebaseUser.uid].permissions)
      ]_vars

\* C29: once no resolution of a session is in flight, the context holds the
\* subject of the session's most recent notification, or null when that was
\* a sign-out: an older resolution that completes late never replaces the
\* result of a newer notification.
LatestNotificationWins ==
    \A s \in Sessions :
       ( /\ authUser[s] # Unknown
         /\ \A t \in Tasks : task[t] # Idle => task[t].session # s ) =>
          IF authUser[s] = SignedOut
          THEN user[s] = NoUser
          ELSE user[s] # NoUser /\ user[s].uid = authUser[s]

\* C30: the watch page shows the player only to a context whose
\* watch-content flag is true, and for a VIP title only when its
\* watch-restricted-content flag is true; watch progress is written only for
\* a context whose persist-progress flag is true.
WatchEnforcesFlags ==
    /\ [](\A s \in Sessions :
            PlayerShown(s) =>
               /\ can(s, "canWatchContent")
               /\ page[s].isVip => can(s, "canWatchVipContent"))
    /\ [][ progress' # progress =>
             \A s \in Sessions :
                handleEpisodeChange(s, TRUE) => can(s, "canSaveProgress") ]_vars

====
